---- MODULE Spec2Model ----
(***************************************************************************)
(* Bookmark Manager REST API (src/server.js): an Express application over  *)
(* one SQLite table, bookmarks(id PRIMARY KEY, url NOT NULL, title NOT     *)
(* NULL, description, created_at NOT NULL).                                *)
(*                                                                         *)
(* A step of the model is one storage statement together with the work     *)
(* the process does around it: the validators and the handler that issue   *)
(* it, and the callback that answers.  POST, GET and DELETE issue one      *)
(* statement; PUT issues two (a SELECT, and from its callback an UPDATE),  *)
(* so a PUT is two steps and other requests' statements may run between    *)
(* them.  uuidv4() and new Date() are choices from small sets, so an id    *)
(* may repeat and the INSERT then fails on the primary key.  Storage       *)
(* faults other than constraint violations (disk, I/O) are not modelled.   *)
(* A run takes at most MaxRequests requests.                               *)
(*                                                                         *)
(* JSON values are tagged: Str(s), Null, and Undefined for a key that is   *)
(* absent from a body.  Request bodies carry strings, null or nothing for  *)
(* url, title and description.                                             *)
(***************************************************************************)
EXTENDS Naturals, Sequences, FiniteSets, Bags

VARIABLES table,     \* the rows of bookmarks
          inflight,  \* PUT requests whose SELECT has answered and whose UPDATE is queued
          resp,      \* the response sent last
          served,    \* how many requests the server has taken so far
          hist       \* the requests answered so far, in the order of their answers
                     \* (recorded by SpecH only)

vars == <<table, inflight, resp, served, hist>>

----------------------------------------------------------------------------
(* Bounds *)

\* requests the server takes in one run
MaxRequests == 3

----------------------------------------------------------------------------
(* JSON / JavaScript values *)

Null == <<"null">>
Undefined == <<"undefined">>
Str(s) == <<"string", s>>

\* a ?? b
Coalesce(a, b) == IF a = Null \/ a = Undefined THEN b ELSE a

\* a || b   (the falsy values among strings, null and undefined)
OrElse(a, b) == IF a = Null \/ a = Undefined \/ a = Str("") THEN b ELSE a

----------------------------------------------------------------------------
(* Inputs *)

Ids == {"id-1", "id-2"}
TimeStamps == {"2024-01-01T00:00:00.000Z", "2024-01-02T00:00:00.000Z"}

\* the strings of the model that validator.js isURL accepts
WellFormedUrls == {"http://a.com", "http://b.org"}

\* bodies of POST /bookmarks: every description on a url and title that pass,
\* and every url with every title, with and without a description
PostBodies ==
    [url : {Str("http://a.com")}, title : {Str("T1")},
     description : {Str("x"), Str(""), Null, Undefined}]
    \cup [url : {Str("http://a.com"), Str("not-a-url"), Undefined},
          title : {Str("T1"), Str(""), Undefined},
          description : {Str("x"), Undefined}]

\* bodies of PUT /bookmarks/:id, likewise
PutBodies ==
    [url : {Str("http://b.org"), Undefined}, title : {Str("T2"), Undefined},
     description : {Str("x"), Str(""), Null, Undefined}]
    \cup [url : {Str("http://b.org"), Str("not-a-url"), Undefined},
          title : {Str("T2"), Str(""), Null, Undefined},
          description : {Str("x"), Undefined}]

\* what a request other than POST and PUT has for a body
NoBody == [url |-> Undefined, title |-> Undefined, description |-> Undefined]

\* the inputs of a recorded run (SpecH)
HIds == {"id-1"}
HTimeStamps == {"2024-01-01T00:00:00.000Z"}
HPostBodies ==
    {[url |-> Str("http://a.com"), title |-> Str("T1"), description |-> Undefined]}
HPutBodies ==
    {[NoBody EXCEPT !.url = Str("http://b.org")],
     [NoBody EXCEPT !.title = Str("T2")],
     [NoBody EXCEPT !.description = Str("x")],
     [NoBody EXCEPT !.title = Str("")]}

----------------------------------------------------------------------------
(* express-validator *)

\* express-validator's toString of a field value before a standard validator runs
toString(v) == IF v = Null \/ v = Undefined THEN "" ELSE v[2]

isURL(s) == s \in WellFormedUrls

notEmpty(s) == s /= ""

FieldError(field, msg) == [path |-> field, msg |-> msg]

\* PostErrors without the validator of title
MPostErrors(body) ==
    IF isURL(toString(body.url)) THEN <<>> ELSE <<FieldError("url", "Invalid URL")>>

\* body("url").isURL(), body("title").notEmpty()
PostErrors(body) ==
    (IF isURL(toString(body.url)) THEN <<>> ELSE <<FieldError("url", "Invalid URL")>>)
    \o (IF notEmpty(toString(body.title)) THEN <<>>
        ELSE <<FieldError("title", "Title is required")>>)

\* PutErrors without the validator of title
MPutErrors(body) ==
    IF body.url = Undefined \/ isURL(toString(body.url)) THEN <<>>
    ELSE <<FieldError("url", "Invalid URL")>>

\* body("url").optional().isURL(), body("title").optional().notEmpty():
\* optional() skips the chain only when the value is undefined
PutErrors(body) ==
    (IF body.url = Undefined \/ isURL(toString(body.url)) THEN <<>>
     ELSE <<FieldError("url", "Invalid URL")>>)
    \o (IF body.title = Undefined \/ notEmpty(toString(body.title)) THEN <<>>
        ELSE <<FieldError("title", "Title cannot be empty")>>)

----------------------------------------------------------------------------
(* Storage statements *)

Row(id, url, title, description, created_at) ==
    [id |-> id, url |-> url, title |-> title, description |-> description,
     created_at |-> created_at]

\* SELECT * FROM bookmarks WHERE id = ?
SelectById(t, id) == {r \in t : r.id = id}

\* InsertAllowed of a table whose id is no key
MInsertAllowed(t, row) == row.url /= Null /\ row.title /= Null

\* the table's constraints: PRIMARY KEY(id), NOT NULL url, title, created_at
InsertAllowed(t, row) ==
    /\ SelectById(t, row.id) = {}
    /\ row.url /= Null
    /\ row.title /= Null

\* INSERT INTO bookmarks ... : the new table, or the old one on a constraint error
Insert(t, row) == IF InsertAllowed(t, row) THEN t \cup {row} ELSE t

UpdateAllowed(u) == u.url /= Null /\ u.title /= Null

\* Update without its WHERE
MUpdate(t, id, u) ==
    {[r EXCEPT !.url = u.url, !.title = u.title, !.description = u.description] : r \in t}

\* UPDATE bookmarks SET url = ?, title = ?, description = ? WHERE id = ?
Update(t, id, u) ==
    {IF r.id = id
       THEN [r EXCEPT !.url = u.url, !.title = u.title, !.description = u.description]
       ELSE r : r \in t}

\* Delete without its WHERE
MDelete(t, id) == {r \in t : FALSE}

\* DELETE FROM bookmarks WHERE id = ?
Delete(t, id) == {r \in t : r.id /= id}

\* this.changes of the DELETE
Changes(t, id) == Cardinality(SelectById(t, id))

----------------------------------------------------------------------------
(* Responses *)

NoRecord == Row("", Undefined, Undefined, Undefined, "")

Response(op, status) ==
    [op |-> op, status |-> status, record |-> NoRecord, rows |-> {},
     errors |-> <<>>, message |-> ""]

ValidationFailed(op, errors) == [Response(op, 400) EXCEPT !.errors = errors]
NotFound(op) == [Response(op, 404) EXCEPT !.message = "Bookmark not found"]
DatabaseError(op) == [Response(op, 500) EXCEPT !.message = "Database error"]
WithRecord(op, status, record) == [Response(op, status) EXCEPT !.record = record]

----------------------------------------------------------------------------
(* Handlers *)

Init ==
    /\ table = {}
    /\ inflight = EmptyBag
    /\ resp = Response("none", 0)
    /\ served = 0
    /\ hist = <<>>

\* PostRow with url and title bound to each other's column
MPostRow(body, id, now) ==
    Row(id, body.title, body.url, OrElse(body.description, Null), now)

\* the row that POST stores
PostRow(body, id, now) ==
    Row(id, body.url, body.title, OrElse(body.description, Null), now)

\* the record that POST answers with
PostRecord(body, id, now) ==
    Row(id, body.url, body.title, body.description, now)

\* the INSERT and its callback
PostInsert(body, id, now) ==
    /\ table' = Insert(table, PostRow(body, id, now))
    /\ resp' = IF InsertAllowed(table, PostRow(body, id, now))
                 THEN WithRecord("POST", 201, PostRecord(body, id, now))
                 ELSE DatabaseError("POST")

\* POST /bookmarks; uuidv4() gives one of ids and new Date().toISOString() one of
\* times
PostBookmark(body, ids, times) ==
    /\ IF PostErrors(body) /= <<>>
         THEN /\ resp' = ValidationFailed("POST", PostErrors(body))
              /\ table' = table
         ELSE \E id \in ids, now \in times : PostInsert(body, id, now)
    /\ UNCHANGED inflight

\* GET /bookmarks
ListBookmarks ==
    /\ resp' = [Response("LIST", 200) EXCEPT !.rows = table]
    /\ UNCHANGED <<table, inflight>>

GetResponse(t, id) ==
    IF SelectById(t, id) = {} THEN NotFound("GET")
    ELSE WithRecord("GET", 200, CHOOSE r \in SelectById(t, id) : TRUE)

\* GET /bookmarks/:id
GetBookmark(id) ==
    /\ resp' = GetResponse(table, id)
    /\ UNCHANGED <<table, inflight>>

\* updatedBookmark
Merge(body, bookmark) ==
    [url |-> Coalesce(body.url, bookmark.url),
     title |-> Coalesce(body.title, bookmark.title),
     description |-> Coalesce(body.description, bookmark.description)]

\* what the SELECT's callback holds when it queues the UPDATE
Pending(id, body, bookmark) ==
    [id |-> id, body |-> body, bookmark |-> bookmark,
     updatedBookmark |-> Merge(body, bookmark)]

\* PUT /bookmarks/:id up to the callback of its SELECT
PutBookmark(id, body) ==
    IF PutErrors(body) /= <<>>
      THEN /\ resp' = ValidationFailed("PUT", PutErrors(body))
           /\ UNCHANGED <<table, inflight>>
    ELSE IF SelectById(table, id) = {}
      THEN /\ resp' = NotFound("PUT")
           /\ UNCHANGED <<table, inflight>>
    ELSE /\ inflight' = inflight (+) SetToBag(
                {Pending(id, body, CHOOSE r \in SelectById(table, id) : TRUE)})
         /\ UNCHANGED <<table, resp>>

\* { ...bookmark, ...updatedBookmark }
PutRecord(p) ==
    [p.bookmark EXCEPT !.url = p.updatedBookmark.url,
                       !.title = p.updatedBookmark.title,
                       !.description = p.updatedBookmark.description]

\* PUT /bookmarks/:id from its UPDATE to the answer
PutBookmarkRun(p) ==
    /\ BagIn(p, inflight)
    /\ inflight' = inflight (-) SetToBag({p})
    /\ IF UpdateAllowed(p.updatedBookmark)
         THEN /\ table' = Update(table, p.id, p.updatedBookmark)
              /\ resp' = WithRecord("PUT", 200, PutRecord(p))
         ELSE /\ table' = table
              /\ resp' = DatabaseError("PUT")

\* DELETE /bookmarks/:id
DeleteBookmark(id) ==
    /\ table' = Delete(table, id)
    /\ resp' = IF Changes(table, id) = 0 THEN NotFound("DELETE")
               ELSE Response("DELETE", 204)
    /\ UNCHANGED inflight

----------------------------------------------------------------------------

\* the server takes one more request
Take == served < MaxRequests /\ served' = served + 1

Next ==
    \/ \E body \in PostBodies :
          Take /\ PostBookmark(body, Ids, TimeStamps) /\ UNCHANGED hist
    \/ Take /\ ListBookmarks /\ UNCHANGED hist
    \/ \E id \in Ids : Take /\ GetBookmark(id) /\ UNCHANGED hist
    \/ \E id \in Ids, body \in PutBodies :
          Take /\ PutBookmark(id, body) /\ UNCHANGED hist
    \/ \E p \in BagToSet(inflight) : PutBookmarkRun(p) /\ UNCHANGED <<served, hist>>
    \/ \E id \in Ids : Take /\ DeleteBookmark(id) /\ UNCHANGED hist

Spec == Init /\ [][Next]_vars

----------------------------------------------------------------------------
(* Recorded runs: the same handlers on fewer inputs, each answer appended  *)
(* to hist with the request it answers.                                    *)

Entry(op, id, body, now, r) ==
    [op |-> op, id |-> id, body |-> body, now |-> now, resp |-> r]

Record(op, id, body, now) == hist' = Append(hist, Entry(op, id, body, now, resp'))

NextH ==
    \/ \E body \in HPostBodies, id \in HIds, now \in HTimeStamps :
          Take /\ PostBookmark(body, {id}, {now}) /\ Record("POST", id, body, now)
    \/ Take /\ ListBookmarks /\ Record("LIST", "", NoBody, "")
    \/ \E id \in HIds : Take /\ GetBookmark(id) /\ Record("GET", id, NoBody, "")
    \/ \E id \in HIds, body \in HPutBodies :
          /\ Take
          /\ PutBookmark(id, body)
          /\ IF inflight' = inflight THEN Record("PUT", id, body, "")
             ELSE UNCHANGED hist
    \/ \E p \in BagToSet(inflight) :
          PutBookmarkRun(p) /\ Record("PUT", p.id, p.body, "") /\ UNCHANGED served
    \/ \E id \in HIds : Take /\ DeleteBookmark(id) /\ Record("DELETE", id, NoBody, "")

SpecH == Init /\ [][NextH]_vars

----------------------------------------------------------------------------
(* C1 *)

\* One request handled from its arrival to its answer with nothing in between:
\* the table it leaves and the answer it gives.
Outcome(t, r) == [table |-> t, resp |-> r]

SerialPut(t, id, body) ==
    IF PutErrors(body) /= <<>> THEN Outcome(t, ValidationFailed("PUT", PutErrors(body)))
    ELSE IF SelectById(t, id) = {} THEN Outcome(t, NotFound("PUT"))
    ELSE LET p == Pending(id, body, CHOOSE r \in SelectById(t, id) : TRUE)
         IN  IF UpdateAllowed(p.updatedBookmark)
               THEN Outcome(Update(t, id, p.updatedBookmark),
                            WithRecord("PUT", 200, PutRecord(p)))
               ELSE Outcome(t, DatabaseError("PUT"))

SerialPost(t, body, id, now) ==
    IF PostErrors(body) /= <<>> THEN Outcome(t, ValidationFailed("POST", PostErrors(body)))
    ELSE IF InsertAllowed(t, PostRow(body, id, now))
      THEN Outcome(Insert(t, PostRow(body, id, now)),
                   WithRecord("POST", 201, PostRecord(body, id, now)))
    ELSE Outcome(t, DatabaseError("POST"))

SerialDelete(t, id) ==
    Outcome(Delete(t, id),
            IF Changes(t, id) = 0 THEN NotFound("DELETE") ELSE Response("DELETE", 204))

SerialStep(t, e) ==
    CASE e.op = "POST" -> SerialPost(t, e.body, e.id, e.now)
      [] e.op = "LIST" -> Outcome(t, [Response("LIST", 200) EXCEPT !.rows = t])
      [] e.op = "GET" -> Outcome(t, GetResponse(t, e.id))
      [] e.op = "PUT" -> SerialPut(t, e.id, e.body)
      [] e.op = "DELETE" -> SerialDelete(t, e.id)

\* running the requests es one after another from table t gives each the answer
\* recorded for it and ends in table final
RECURSIVE SerialRunGives(_, _, _)
SerialRunGives(t, es, final) ==
    IF es = <<>> THEN t = final
    ELSE /\ SerialStep(t, Head(es)).resp = Head(es).resp
         /\ SerialRunGives(SerialStep(t, Head(es)).table, Tail(es), final)

Orders(n) == {f \in [1..n -> 1..n] : \A i, j \in 1..n : f[i] = f[j] => i = j}

\* C1: once every request taken has been answered, the table and every answer are
\* those of the same requests handled one after another in some order.
C1_Serializable ==
    inflight = EmptyBag =>
        \E f \in Orders(Len(hist)) :
            SerialRunGives({}, [i \in 1..Len(hist) |-> hist[f[i]]], table)

----------------------------------------------------------------------------
(* What the claims call an input *)

\* url is not a syntactically valid URL (a missing url is none)
BadUrl(v) == v = Undefined \/ v = Null \/ ~isURL(v[2])

\* title is missing or empty
NoTitle(v) == v = Undefined \/ v = Null \/ v = Str("")

\* the body of a PUT contains an invalid url or an empty title
BadPutBody(body) ==
    \/ body.url /= Undefined /\ BadUrl(body.url)
    \/ body.title /= Undefined /\ NoTitle(body.title)

Fields == {"url", "title", "description"}

----------------------------------------------------------------------------
(* C2 *)

\* C2: a PUT whose UPDATE runs on the row its SELECT read (nothing changed the row
\* in between) answers 200, keeps the row's id and created_at and every field the
\* body does not carry, changes no other row, and a url it carries is the url that
\* get-by-id then returns.
C2_UpdateFrame ==
    [][\A p \in BagToSet(inflight) :
          (PutBookmarkRun(p) /\ p.bookmark \in table) =>
              /\ resp'.status = 200
              /\ \E new \in table' :
                    /\ new.id = p.bookmark.id
                    /\ new.created_at = p.bookmark.created_at
                    /\ \A f \in Fields : p.body[f] = Undefined => new[f] = p.bookmark[f]
                    /\ table' \ {new} = table \ {p.bookmark}
                    /\ GetResponse(table', p.id) = WithRecord("GET", 200, new)
                    /\ p.body.url /= Undefined => new.url = p.body.url
      ]_vars

\* a PUT has answered 200, its row is stored as answered, beside another row
C2_Witness ==
    /\ resp.op = "PUT" /\ resp.status = 200
    /\ resp.record \in table
    /\ Cardinality(table) = 2

----------------------------------------------------------------------------
(* C3 *)

\* C3: after a PUT answered 200 on the row its SELECT read, every field the body
\* carries has the body's value in the stored row and in the answer.
C3_SuppliedFieldsStored ==
    [][\A p \in BagToSet(inflight) :
          (PutBookmarkRun(p) /\ p.bookmark \in table /\ resp'.status = 200) =>
              \A f \in Fields :
                  p.body[f] /= Undefined =>
                      /\ resp'.record[f] = p.body[f]
                      /\ \A r \in SelectById(table', p.id) : r[f] = p.body[f]
      ]_vars

----------------------------------------------------------------------------
(* C4 *)

\* the answer is a 400 with its field errors and the table is as it was
Rejected == resp'.status = 400 /\ resp'.errors /= <<>> /\ table' = table

\* C4: a POST whose url is not a valid URL or whose title is missing or empty is
\* answered 400 and leaves the table as it was, so that a list shows the same rows.
\* Stated by contraposition (every step of PostBookmark answers as a POST and
\* queues nothing): a step that answers a POST and is not such a rejection handles
\* no such body.
C4_InvalidCreateRejected ==
    [][(resp'.op = "POST" /\ inflight' = inflight /\ ~Rejected) =>
          \A body \in PostBodies :
              (BadUrl(body.url) \/ NoTitle(body.title)) => ~PostBookmark(body, Ids, TimeStamps)
      ]_vars

\* a POST has been answered 400 while the table holds a row
C4_Witness == resp.op = "POST" /\ resp.status = 400 /\ table /= {}

----------------------------------------------------------------------------
(* C5 *)

\* C5: after a POST answered 201, get-by-id on the id of the answer gives 200 and
\* a record with the submitted url and title and that id, which is not empty.
C5_CreateThenGet ==
    [][(resp'.op = "POST" /\ resp'.status = 201 /\ inflight' = inflight) =>
          \A body \in PostBodies :
              PostBookmark(body, Ids, TimeStamps) =>
                  /\ resp'.record.id /= ""
                  /\ GetResponse(table', resp'.record.id).status = 200
                  /\ GetResponse(table', resp'.record.id).record.id = resp'.record.id
                  /\ GetResponse(table', resp'.record.id).record.url = body.url
                  /\ GetResponse(table', resp'.record.id).record.title = body.title
      ]_vars

\* a POST has been answered 201 while another row exists
C5_Witness == resp.op = "POST" /\ resp.status = 201 /\ Cardinality(table) = 2

----------------------------------------------------------------------------
(* C6 *)

\* C6: the record in a 201 answer is the row that was stored (description null
\* when the body has none), which is what get-by-id returns next.
C6_CreatedRecordIsRow ==
    (resp.op = "POST" /\ resp.status = 201) =>
        /\ resp.record \in table
        /\ GetResponse(table, resp.record.id).record = resp.record

----------------------------------------------------------------------------
(* C7 *)

\* C7: DELETE of an id with a row answers 204 and removes that row only; DELETE of
\* an id without a row answers 404 and changes nothing; after either, get-by-id
\* and a second DELETE of the id answer 404.
C7_Delete ==
    [][\A id \in Ids :
          DeleteBookmark(id) =>
              /\ (SelectById(table, id) /= {}) =>
                    /\ resp'.status = 204
                    /\ table' = table \ SelectById(table, id)
                    /\ Cardinality(table') = Cardinality(table) - 1
              /\ (SelectById(table, id) = {}) =>
                    /\ resp'.status = 404
                    /\ table' = table
              /\ GetResponse(table', id).status = 404
              /\ SerialDelete(table', id) = Outcome(table', NotFound("DELETE"))
      ]_vars

\* a DELETE has been answered 204 and left the other row
C7_Witness == resp.op = "DELETE" /\ resp.status = 204 /\ Cardinality(table) = 1

----------------------------------------------------------------------------
(* C8 *)

\* the answer is that of a PUT with this status, and neither the table nor the
\* queue of UPDATEs has changed
Refused(status) ==
    resp'.op = "PUT" /\ resp'.status = status /\ UNCHANGED <<table, inflight>>

\* C8: a PUT whose body has an invalid url or an empty title is answered 400,
\* whether the id has a row or not; otherwise a PUT on an id without a row is
\* answered 404; in both cases the table is unchanged and no UPDATE is queued.
\* Stated by contraposition (a step of PutBookmark answers as a PUT or queues an
\* UPDATE): a step that is not the refusal a request calls for does not handle it.
C8_UpdateErrorPrecedence ==
    [][(resp'.op = "PUT" \/ inflight' /= inflight) =>
          /\ ~Refused(400) =>
                \A body \in PutBodies :
                    BadPutBody(body) => \A id \in Ids : ~PutBookmark(id, body)
          /\ ~Refused(404) =>
                \A id \in Ids :
                    SelectById(table, id) = {} =>
                        \A body \in PutBodies :
                            ~BadPutBody(body) => ~PutBookmark(id, body)
      ]_vars

\* a PUT has been answered 400 while rows exist, nothing queued
C8_Witness ==
    /\ resp.op = "PUT" /\ resp.status = 400
    /\ table /= {}
    /\ inflight = EmptyBag

----------------------------------------------------------------------------
(* C9 *)

\* C9: in every reachable state an id has at most one row, and every row has a
\* url and a title that are neither null nor empty.
C9_RowInvariant ==
    /\ \A r1, r2 \in table : r1.id = r2.id => r1 = r2
    /\ \A r \in table :
          /\ r.url \notin {Null, Undefined, Str("")}
          /\ r.title \notin {Null, Undefined, Str("")}

\* an INSERT of an id that has a row has been refused, with two rows stored
C9_Witness == resp = DatabaseError("POST") /\ Cardinality(table) = 2

----------------------------------------------------------------------------
(* C10 *)

\* C10: when a PUT has answered 200, the row exists and is the record answered.
C10_UpdateAnswersStoredRow ==
    (resp.op = "PUT" /\ resp.status = 200) => resp.record \in table

====
